---- MODULE Spec2Model ----
(***************************************************************************)
(* Model of the viseme synchronisation engine of kaiser-echo:              *)
(* PhonemeSyncManager (src/src/utils/phonemeSync.ts), the browser timer    *)
(* queue it arms with window.setTimeout, the SpeechSynthesisUtterance      *)
(* objects whose end/error events it listens to, and the subscriber        *)
(* callbacks it invokes synchronously.                                     *)
(*                                                                         *)
(* JavaScript runs one task at a time.  A task (a host call, a timer       *)
(* callback, an utterance event) runs to completion, but the subscriber    *)
(* callbacks it invokes may call back into the manager.  The variable      *)
(* stack holds the continuations of the calls in progress, innermost       *)
(* first; it is empty between tasks.                                       *)
(***************************************************************************)
EXTENDS Integers, Sequences, FiniteSets, TLC

(***************************************************************************)
(* Bounds of the model.                                                    *)
(***************************************************************************)
MaxNow == 40           \* the clock does not pass this (milliseconds)
MaxTimers == 2         \* most timers pending at once
MaxUtterances == 2     \* utterance objects the host creates
MaxPhonemes == 3       \* longest viseme sequence handed to buildTimeline alone
MaxOvershoot == 40     \* how far past the end of a timeline lookups are tried
MaxTextLen == 6        \* longest utterance text handed to the text classifiers
MaxFrameNow == 280     \* the avatar's clock does not pass this (milliseconds)
MaxPlayNow == 500      \* the clock of a playback alone does not pass this

(***************************************************************************)
(* Program constants.                                                      *)
(***************************************************************************)
TickPeriodMs == 20     \* window.setTimeout(updateLoop, 20)

Null == 0              \* null, and every falsy timer handle
Silence == "X-hold"

PhonemeType == {"X", "A", "B", "C", "D", "E", "F", "G", "H"}
VariationsHoldFirst == <<"hold", "opening", "closing">>

Variations == <<"opening", "hold", "closing">>

PHONEME_DURATIONS ==
  [p \in PhonemeType |->
     CASE p = "X" -> [opening |-> 30, hold |-> 40, closing |-> 30]
       [] p = "A" -> [opening |-> 35, hold |-> 60, closing |-> 35]
       [] p = "B" -> [opening |-> 40, hold |-> 80, closing |-> 40]
       [] p = "C" -> [opening |-> 25, hold |-> 50, closing |-> 25]
       [] p = "D" -> [opening |-> 35, hold |-> 65, closing |-> 35]
       [] p = "E" -> [opening |-> 40, hold |-> 70, closing |-> 40]
       [] p = "F" -> [opening |-> 30, hold |-> 60, closing |-> 30]
       [] p = "G" -> [opening |-> 30, hold |-> 50, closing |-> 30]
       [] p = "H" -> [opening |-> 40, hold |-> 70, closing |-> 40]]

DurationOf(p, v) ==
  CASE v = "opening" -> PHONEME_DURATIONS[p].opening
    [] v = "hold"    -> PHONEME_DURATIONS[p].hold
    [] v = "closing" -> PHONEME_DURATIONS[p].closing

(***************************************************************************)
(* buildTimeline: three entries per phoneme, startTime the running sum.    *)
(***************************************************************************)
VariationKeyOf(p, v) == p \o "-" \o v

AdvanceTimeReplaced(currentTime, duration) == duration

AdvanceTime(currentTime, duration) == currentTime + duration

RECURSIVE BuildFrom(_, _, _, _, _)
BuildFrom(phonemes, i, j, currentTime, acc) ==
  IF i > Len(phonemes) THEN acc
  ELSE IF j > Len(Variations) THEN BuildFrom(phonemes, i + 1, 1, currentTime, acc)
  ELSE LET phoneme == phonemes[i]
           variation == Variations[j]
           duration == DurationOf(phoneme, variation)
           entry == [phoneme |-> phoneme,
                     variation |-> variation,
                     variationKey |-> VariationKeyOf(phoneme, variation),
                     startTime |-> currentTime,
                     duration |-> duration]
       IN BuildFrom(phonemes, i, j + 1, AdvanceTime(currentTime, duration),
                    Append(acc, entry))

buildTimeline(phonemes) == BuildFrom(phonemes, 1, 1, 0, <<>>)

(***************************************************************************)
(* getCurrentVariationFromTimeline: Array.find returns the first entry     *)
(* whose interval holds elapsedMs; none gives 'X-hold'.                    *)
(***************************************************************************)
EntryHoldsStrict(e, elapsedMs) ==
  elapsedMs > e.startTime /\ elapsedMs < e.startTime + e.duration

EntryHoldsClosed(e, elapsedMs) ==
  elapsedMs >= e.startTime /\ elapsedMs <= e.startTime + e.duration

EntryHolds(e, elapsedMs) ==
  elapsedMs >= e.startTime /\ elapsedMs < e.startTime + e.duration

getCurrentVariationHoldingLast(tl, elapsedMs) ==
  LET hits == {i \in 1..Len(tl) : EntryHolds(tl[i], elapsedMs)}
  IN IF hits = {} THEN (IF tl = <<>> THEN Silence ELSE tl[Len(tl)].variationKey)
     ELSE tl[CHOOSE i \in hits : \A k \in hits : i <= k].variationKey

getCurrentVariationFromTimeline(tl, elapsedMs) ==
  LET hits == {i \in 1..Len(tl) : EntryHolds(tl[i], elapsedMs)}
  IN IF hits = {} THEN Silence
     ELSE tl[CHOOSE i \in hits : \A k \in hits : i <= k].variationKey

(***************************************************************************)
(* generateNaturalMouthSequence over texts, a text being a sequence of     *)
(* one-character strings.                                                  *)
(***************************************************************************)
IsSpace(c) == c \in {" ", "\t", "\n"}

toLowerCase(c) ==
  CASE c = "M" -> "m" [] c = "A" -> "a" [] c = "O" -> "o"
    [] c = "E" -> "e" [] c = "T" -> "t" [] c = "H" -> "h"
    [] OTHER -> c

LowerText(text) == [i \in 1..Len(text) |-> toLowerCase(text[i])]

\* String.prototype.split(/\s+/): the pieces between maximal runs of
\* whitespace, empty pieces at both ends included.
RECURSIVE SplitFrom(_, _, _, _)
SplitFrom(text, i, word, acc) ==
  IF i > Len(text) THEN Append(acc, word)
  ELSE IF IsSpace(text[i])
       THEN IF i > 1 /\ IsSpace(text[i - 1])
            THEN SplitFrom(text, i + 1, word, acc)
            ELSE SplitFrom(text, i + 1, <<>>, Append(acc, word))
       ELSE SplitFrom(text, i + 1, Append(word, text[i]), acc)

SplitWords(text) == SplitFrom(text, 1, <<>>, <<>>)

Includes(word, c) == \E i \in 1..Len(word) : word[i] = c

Max(a, b) == IF a >= b THEN a ELSE b

SyllableCountFloor(word) == Len(word) \div 3

SyllableCount(word) == Max(1, Len(word) \div 3)

SyllableOfRest(word) == <<"A", "A", "X">>

SyllableOf(word) ==
  << IF Includes(word, "m") \/ Includes(word, "b") \/ Includes(word, "p")
       THEN "C" ELSE "A",
     IF Includes(word, "o") \/ Includes(word, "u") THEN "E"
       ELSE IF Includes(word, "e") \/ Includes(word, "i") THEN "H"
       ELSE IF Includes(word, "a") THEN "B"
       ELSE "A",
     "A" >>

RECURSIVE Repeat(_, _)
Repeat(s, n) == IF n = 0 THEN <<>> ELSE s \o Repeat(s, n - 1)

RECURSIVE WordsFrom(_, _)
WordsFrom(words, wordIndex) ==
  IF wordIndex > Len(words) THEN <<>>
  ELSE Repeat(SyllableOf(words[wordIndex]), SyllableCount(words[wordIndex]))
       \o (IF wordIndex < Len(words) THEN <<"X">> ELSE <<>>)
       \o WordsFrom(words, wordIndex + 1)

generateNaturalMouthSequence(text) == WordsFrom(SplitWords(LowerText(text)), 1)

(***************************************************************************)
(* textToPhonemes: the character scan.  No caller uses it.  Undefined is   *)
(* word[i] read outside the word.  The accented vowels of lines 270-283    *)
(* are outside the alphabet of the model and take the same branches as     *)
(* their plain letters.                                                    *)
(***************************************************************************)
Undefined == "undefined"

CharAtNone(word, i) == Undefined

CharAt(word, i) == IF i >= 1 /\ i <= Len(word) THEN word[i] ELSE Undefined

\* One pass of the for loop at index i (counted from 1): the visemes pushed
\* and the index of the next pass.
CharStep(word, i) ==
  LET char == word[i]
      nextChar == CharAt(word, i + 1)
      prevChar == CharAt(word, i - 1)
      one(p) == [push |-> <<p>>, next |-> i + 1]
      two(p) == [push |-> <<p>>, next |-> i + 2]
  IN IF char \in {"m", "b", "p"} THEN one("C")
     ELSE IF char \in {"f", "v"} THEN one("F")
     ELSE IF char = "t" /\ nextChar = "h" THEN two("G")
     ELSE IF char \in {"t", "d", "k", "g"} /\ nextChar # "h" THEN one("D")
     ELSE IF char \in {"s", "z", "x", "c", "j", "q"} THEN one("F")
     ELSE IF char = "l" \/ char = "r" THEN one("D")
     ELSE IF char = "n" THEN one("C")
     ELSE IF char = "w" THEN one("E")
     ELSE IF char = "o" /\ (nextChar = "o" \/ nextChar = "u") THEN two("E")
     ELSE IF char = "a" /\ nextChar = "a" THEN two("B")
     ELSE IF char = "e" /\ nextChar = "e" THEN two("H")
     ELSE IF char = "a" THEN one("B")
     ELSE IF char = "e"
          THEN IF i = Len(word) /\ Len(word) > 2
               THEN [push |-> <<>>, next |-> i + 1]
               ELSE one("D")
     ELSE IF char = "i" THEN one("H")
     ELSE IF char = "o" THEN one("E")
     ELSE IF char = "u" THEN one("E")
     ELSE IF char = "y"
          THEN IF i = 1 \/ prevChar = " " THEN one("D") ELSE one("H")
     ELSE one("A")

RECURSIVE ScanFrom(_, _)
ScanFrom(word, i) ==
  IF i > Len(word) THEN <<>>
  ELSE CharStep(word, i).push \o ScanFrom(word, CharStep(word, i).next)

RECURSIVE ScanWordsFrom(_, _)
ScanWordsFrom(words, wordIndex) ==
  IF wordIndex > Len(words) THEN <<>>
  ELSE ScanFrom(words[wordIndex], 1)
       \o (IF wordIndex < Len(words) THEN <<"X">> ELSE <<>>)
       \o ScanWordsFrom(words, wordIndex + 1)

textToPhonemes(text) == ScanWordsFrom(SplitWords(LowerText(text)), 1)

(***************************************************************************)
(* The host side: subscriber callbacks, utterance objects, timers.         *)
(***************************************************************************)
Listeners == {"l1", "l2"}        \* the callbacks the host may subscribe
Empty == "-"                     \* a deleted entry of the Set's entry list
HostPhonemes == {"X", "B"}       \* arguments the host passes to setCurrentPhoneme

Utterances == 1..MaxUtterances
SampleTexts == { <<"M", "a">>, <<"o">> }   \* the texts the host speaks

TimerIds == 1..(MaxTimers + 1)

VARIABLES
  listeners,            \* Set<PhonemeListener>: its entry list, in insertion order
  currentVariationKey,  \* the published variation key
  utterance,            \* the attached utterance, or Null
  timeline,             \* PhonemeTimelineEntry[]
  utteranceStartTime,   \* Date.now() at the last startPhonemeSimulation
  playbackInterval,     \* the last timer handle stored, or Null
  timers,               \* the browser's pending timeouts running updateLoop
  now,                  \* Date.now()
  uttState,             \* per utterance: "new"; "bare" while setUtterance runs;
                        \* "armed" with the end and error listeners added;
                        \* "done" when no listener of the manager can run for it
  stack,                \* continuations of the calls in progress
  afterReset,           \* "just": reset() returned and nothing ran since
                        \* ("twice": so did the reset before it); "since": it
                        \* returned and setUtterance was not called since;
                        \* "no" otherwise
  utteranceText,        \* utterance.text of the utterance whose timeline is
                        \* built on its own
  phonemeArray,         \* the array phonemes that the text functions return
                        \* and buildTimeline is handed, each on its own
  features,             \* useAudioAnalyzer: the AudioFeatures of the last frame
  audioMouthPosition,   \* useAudioAnalyzer: its currentMouthPosition state
  currentMouthPosition, \* RealisticAvatar: the state as last rendered, which
                        \* the subscribed callback has captured
  pendingMouthPosition, \* the value handed to setCurrentMouthPosition and not
                        \* rendered yet, or NoUpdate
  previousMouthPositionRef,  \* previousMouthPositionRef.current
  transitionStartTimeRef,    \* transitionStartTimeRef.current
  changedAt             \* Date.now() when the mouth position last changed

\* What the manager's actions leave alone: the text, the analyzer, the avatar.
hooks == <<utteranceText, phonemeArray, features, audioMouthPosition, currentMouthPosition,
           pendingMouthPosition, previousMouthPositionRef, transitionStartTimeRef,
           changedAt>>

vars == <<listeners, currentVariationKey, utterance, timeline, utteranceStartTime,
          playbackInterval, timers, now, uttState, stack,
          afterReset, hooks>>

engine == <<listeners, currentVariationKey, utterance, timeline,
            utteranceStartTime, playbackInterval, timers>>

Frame(k) == [k |-> k, i |-> 0, snap |-> {}, called |-> <<>>, u |-> 0]

Registry == {listeners[i] : i \in 1..Len(listeners)} \ {Empty}

NoUpdate == "none"

\* The manager as constructed, with no call in progress.
ManagerInit ==
  /\ listeners = <<>>
  /\ currentVariationKey = Silence
  /\ utterance = Null
  /\ timeline = <<>>
  /\ utteranceStartTime = 0
  /\ playbackInterval = Null
  /\ timers = {}
  /\ uttState = [u \in Utterances |-> "new"]
  /\ stack = <<>>
  /\ afterReset = "no"

\* The hooks as mounted: useState('X'), useRef('X'), useRef(0), and no frame
\* analysed.
HooksInit ==
  /\ features = [amplitude |-> 0, frequency |-> 0, isSpeaking |-> FALSE]
  /\ audioMouthPosition = "X"
  /\ currentMouthPosition = "X"
  /\ pendingMouthPosition = NoUpdate
  /\ previousMouthPositionRef = "X"
  /\ transitionStartTimeRef = 0
  /\ changedAt = 0

Init ==
  /\ ManagerInit
  /\ HooksInit
  /\ now = 0
  /\ utteranceText = <<>>
  /\ phonemeArray = <<>>

(***************************************************************************)
(* Set<PhonemeListener>.  add appends an absent value; delete empties the  *)
(* entry, and the list is compacted when no forEach is walking it.         *)
(***************************************************************************)
Iterating(st) == \E n \in 1..Len(st) : st[n].k = "notify"

Compact(ls) == SelectSeq(ls, LAMBDA x : x # Empty)

SetAdd(ls, l) == IF \E n \in 1..Len(ls) : ls[n] = l THEN ls ELSE Append(ls, l)

SetDeleteDeferred(ls, l, st) ==
  LET emptied == [n \in 1..Len(ls) |-> IF ls[n] = l THEN Empty ELSE ls[n]]
  IN IF Iterating(st) THEN ls ELSE Compact(emptied)

SetDelete(ls, l, st) ==
  LET emptied == [n \in 1..Len(ls) |-> IF ls[n] = l THEN Empty ELSE ls[n]]
  IN IF Iterating(st) THEN emptied ELSE Compact(emptied)

(***************************************************************************)
(* window.setTimeout / clearTimeout.  A handle that is neither pending nor *)
(* stored in playbackInterval cannot be observed, so it is handed out      *)
(* again.  The clock advances by the timer delay, so a timeout is due      *)
(* (ripe) once the clock has advanced after it was armed.                  *)
(***************************************************************************)
UsedIds == {t.id : t \in timers} \cup ({playbackInterval} \ {Null})
FreshId == CHOOSE id \in TimerIds : id \notin UsedIds /\ \A o \in TimerIds \ UsedIds : id <= o

clearTimeout(ts, id) == {t \in ts : t.id # id}

(***************************************************************************)
(* setCurrentVariation(key) followed by the continuation cont of its       *)
(* caller: a changed key is stored and a notification round begins.        *)
(***************************************************************************)
KeyChangedAlways(key) == TRUE

KeyChanged(key) == currentVariationKey # key

NotifyFrame(ls) ==
  [k |-> "notify", i |-> 1, snap |-> {ls[n] : n \in 1..Len(ls)} \ {Empty},
   called |-> <<>>, u |-> 0]

setCurrentVariation(key, cont) ==
  IF KeyChanged(key)
  THEN /\ currentVariationKey' = key
       /\ stack' = <<NotifyFrame(listeners)>> \o cont
  ELSE /\ UNCHANGED currentVariationKey
       /\ stack' = cont

(***************************************************************************)
(* The calls on the stack.  No function of the manager has a try/catch, so *)
(* no frame catches and an exception unwinds every frame.                  *)
(***************************************************************************)
Catches(frame) == FALSE

RECURSIVE Unwind(_)
Unwind(st) ==
  IF st = <<>> THEN <<>>
  ELSE IF Catches(Head(st)) THEN st ELSE Unwind(Tail(st))

Escapes(st) == \A n \in 1..Len(st) : ~Catches(st[n])

InUpdateLoop(st) == \E n \in 1..Len(st) : st[n].k = "tickTail"

Idle == stack = <<>>

\* any call but a returning reset ends "just after reset"
Later == IF afterReset \in {"just", "twice"} THEN "since" ELSE afterReset

(***************************************************************************)
(* Host calls.                                                             *)
(***************************************************************************)
HostSubscribe(l) ==
  /\ Idle
  /\ listeners' = SetAdd(listeners, l)
  /\ afterReset' = Later
  /\ UNCHANGED hooks
  /\ UNCHANGED <<currentVariationKey, utterance, timeline, utteranceStartTime,
                 playbackInterval, timers, now, uttState, stack>>

\* The handle subscribe(l) returned.  Deleting an absent listener changes
\* nothing, so the call is taken whether or not l was ever subscribed.
HostUnsubscribe(l) ==
  /\ Idle
  /\ listeners' = SetDelete(listeners, l, stack)
  /\ afterReset' = Later
  /\ UNCHANGED hooks
  /\ UNCHANGED <<currentVariationKey, utterance, timeline, utteranceStartTime,
                 playbackInterval, timers, now, uttState, stack>>

HostSetCurrentPhoneme(p) ==
  /\ Idle
  /\ setCurrentVariation(p \o "-hold", <<>>)
  /\ afterReset' = Later
  /\ UNCHANGED hooks
  /\ UNCHANGED <<listeners, utterance, timeline, utteranceStartTime,
                 playbackInterval, timers, now, uttState>>

\* setUtterance, and startPhonemeSimulation up to its first updateLoop()
\* call, which looks the timeline up at elapsed time 0.  Both callers pass
\* an utterance they have just constructed; the objects are numbered in the
\* order of their construction.
HostSetUtterance(u, text) ==
  /\ Idle
  /\ uttState[u] = "new"
  /\ \A o \in Utterances : uttState[o] = "new" => u <= o
  /\ Cardinality(timers) < MaxTimers
  /\ utterance' = u
  /\ timeline' = buildTimeline(generateNaturalMouthSequence(text))
  /\ utteranceStartTime' = now
  /\ setCurrentVariation(
       getCurrentVariationFromTimeline(timeline', now - utteranceStartTime'),
       <<Frame("tickTail"), [Frame("startTail") EXCEPT !.u = u]>>)
  /\ uttState' = [uttState EXCEPT ![u] = "bare"]
  /\ afterReset' = "no"
  /\ UNCHANGED hooks
  /\ UNCHANGED <<listeners, playbackInterval, timers, now>>

\* reset() called with base the stack it returns to.  When the key is
\* already 'X-hold' nobody is called and reset runs to its end.  A host
\* reset that returns right after another one makes afterReset "twice".
ResetReturned(base) ==
  IF base = <<>> /\ afterReset \in {"just", "twice"} THEN "twice" ELSE "just"

ResetBodyClearing(base) ==
  /\ timers' = IF playbackInterval # Null
               THEN clearTimeout(timers, playbackInterval) ELSE timers
  /\ playbackInterval' = Null
  /\ timeline' = <<>>
  /\ listeners' = <<>>
  /\ IF KeyChanged(Silence)
     THEN /\ setCurrentVariation(Silence, <<Frame("resetTail")>> \o base)
          /\ afterReset' = Later
          /\ UNCHANGED utterance
     ELSE /\ setCurrentVariation(Silence, base)
          /\ utterance' = Null
          /\ afterReset' = ResetReturned(base)

ResetBody(base) ==
  /\ timers' = IF playbackInterval # Null
               THEN clearTimeout(timers, playbackInterval) ELSE timers
  /\ playbackInterval' = Null
  /\ timeline' = <<>>
  /\ UNCHANGED listeners
  /\ IF KeyChanged(Silence)
     THEN /\ setCurrentVariation(Silence, <<Frame("resetTail")>> \o base)
          /\ afterReset' = Later
          /\ UNCHANGED utterance
     ELSE /\ setCurrentVariation(Silence, base)
          /\ utterance' = Null
          /\ afterReset' = ResetReturned(base)

HostReset ==
  /\ Idle
  /\ ResetBody(<<>>)
  /\ UNCHANGED hooks
  /\ UNCHANGED <<utteranceStartTime, now, uttState>>

(***************************************************************************)
(* Tasks the browser starts: a timeout running updateLoop, and the end or  *)
(* error event of an utterance that has the manager's listeners.           *)
(***************************************************************************)
TimerFire(id) ==
  /\ Idle
  /\ [id |-> id, ripe |-> TRUE] \in timers
  /\ timers' = timers \ {[id |-> id, ripe |-> TRUE]}
  /\ setCurrentVariation(
       getCurrentVariationFromTimeline(timeline, now - utteranceStartTime),
       <<Frame("tickTail")>>)
  /\ afterReset' = Later
  /\ UNCHANGED hooks
  /\ UNCHANGED <<listeners, utterance, timeline, utteranceStartTime,
                 playbackInterval, now, uttState>>

UtteranceEvent(u, kind) ==
  /\ Idle
  /\ kind \in {"end", "error"}
  /\ uttState[u] = "armed"
  /\ uttState' = [uttState EXCEPT ![u] = "done"]
  /\ timers' = IF playbackInterval # Null
               THEN clearTimeout(timers, playbackInterval) ELSE timers
  /\ playbackInterval' = Null
  /\ setCurrentVariation(Silence, <<>>)
  /\ afterReset' = Later
  /\ UNCHANGED hooks
  /\ UNCHANGED <<listeners, utterance, timeline, utteranceStartTime, now>>

Advance ==
  /\ Idle
  /\ now + TickPeriodMs <= MaxNow
  /\ now' = now + TickPeriodMs
  /\ timers' = {[t EXCEPT !.ripe = TRUE] : t \in timers}
  /\ UNCHANGED hooks
  /\ UNCHANGED <<listeners, currentVariationKey, utterance, timeline,
                 utteranceStartTime, playbackInterval, uttState, stack, afterReset>>

(***************************************************************************)
(* Continuations.                                                          *)
(***************************************************************************)
Top == Head(stack)

\* updateLoop after setCurrentVariation: re-arm.
TickTail ==
  /\ stack # <<>> /\ Top.k = "tickTail"
  /\ playbackInterval' = FreshId
  /\ timers' = timers \cup {[id |-> FreshId, ripe |-> FALSE]}
  /\ stack' = Tail(stack)
  /\ afterReset' = Later
  /\ UNCHANGED hooks
  /\ UNCHANGED <<listeners, currentVariationKey, utterance, timeline,
                 utteranceStartTime, now, uttState>>

\* startPhonemeSimulation after updateLoop(): the end and error listeners.
StartTail ==
  /\ stack # <<>> /\ Top.k = "startTail"
  /\ uttState' = [uttState EXCEPT ![Top.u] = "armed"]
  /\ stack' = Tail(stack)
  /\ afterReset' = Later
  /\ UNCHANGED hooks
  /\ UNCHANGED <<listeners, currentVariationKey, utterance, timeline,
                 utteranceStartTime, playbackInterval, timers, now>>

\* reset after setCurrentVariation: this.utterance = null.
ResetTail ==
  /\ stack # <<>> /\ Top.k = "resetTail"
  /\ utterance' = Null
  /\ afterReset' = "just"
  /\ stack' = Tail(stack)
  /\ UNCHANGED hooks
  /\ UNCHANGED <<listeners, currentVariationKey, timeline, utteranceStartTime,
                 playbackInterval, timers, now, uttState>>

(***************************************************************************)
(* notifyListeners: Set.prototype.forEach walks the live entry list, so it *)
(* skips entries deleted before it reaches them and visits entries added   *)
(* while it runs.  Each callback receives the key current when it is       *)
(* called, and then does one of: return, subscribe, unsubscribe, reset,    *)
(* throw.                                                                  *)
(***************************************************************************)
NextLive(ls, i) ==
  LET live == {n \in i..Len(ls) : ls[n] # Empty}
  IN IF live = {} THEN 0 ELSE CHOOSE n \in live : \A m \in live : n <= m

Notifying == stack # <<>> /\ Top.k = "notify" /\ NextLive(listeners, Top.i) # 0

Callee == listeners[NextLive(listeners, Top.i)]

Called == [Top EXCEPT !.i = NextLive(listeners, Top.i) + 1,
                      !.called = Append(@, Callee)]

CallbackReturn ==
  /\ Notifying
  /\ stack' = <<Called>> \o Tail(stack)
  /\ afterReset' = Later
  /\ UNCHANGED hooks
  /\ UNCHANGED <<listeners, currentVariationKey, utterance, timeline,
                 utteranceStartTime, playbackInterval, timers, now, uttState>>

CallbackSubscribe(x) ==
  /\ Notifying
  /\ listeners' = SetAdd(listeners, x)
  /\ stack' = <<Called>> \o Tail(stack)
  /\ afterReset' = Later
  /\ UNCHANGED hooks
  /\ UNCHANGED <<currentVariationKey, utterance, timeline, utteranceStartTime,
                 playbackInterval, timers, now, uttState>>

CallbackUnsubscribe(x) ==
  /\ Notifying
  /\ listeners' = SetDelete(listeners, x, stack)
  /\ stack' = <<Called>> \o Tail(stack)
  /\ afterReset' = Later
  /\ UNCHANGED hooks
  /\ UNCHANGED <<currentVariationKey, utterance, timeline, utteranceStartTime,
                 playbackInterval, timers, now, uttState>>

CallbackReset ==
  /\ Notifying
  /\ ResetBody(<<Called>> \o Tail(stack))
  /\ UNCHANGED hooks
  /\ UNCHANGED <<utteranceStartTime, now, uttState>>

CallbackThrow ==
  /\ Notifying
  /\ stack' = Unwind(stack)
  /\ listeners' = IF Iterating(stack') THEN listeners ELSE Compact(listeners)
  /\ uttState' = [u \in Utterances |->
                    IF uttState[u] = "bare" /\ stack' = <<>> THEN "done" ELSE uttState[u]]
  /\ afterReset' = Later
  /\ UNCHANGED hooks
  /\ UNCHANGED <<currentVariationKey, utterance, timeline, utteranceStartTime,
                 playbackInterval, timers, now>>

NotifyDone ==
  /\ stack # <<>> /\ Top.k = "notify" /\ NextLive(listeners, Top.i) = 0
  /\ stack' = Tail(stack)
  /\ listeners' = IF Iterating(stack') THEN listeners ELSE Compact(listeners)
  /\ afterReset' = Later
  /\ UNCHANGED hooks
  /\ UNCHANGED <<currentVariationKey, utterance, timeline, utteranceStartTime,
                 playbackInterval, timers, now, uttState>>

Next ==
  \/ \E l \in Listeners : HostSubscribe(l)
  \/ \E l \in Listeners : HostUnsubscribe(l)
  \/ \E p \in HostPhonemes : HostSetCurrentPhoneme(p)
  \/ \E u \in Utterances, text \in SampleTexts : HostSetUtterance(u, text)
  \/ HostReset
  \/ \E id \in TimerIds : TimerFire(id)
  \/ \E u \in Utterances, kind \in {"end", "error"} : UtteranceEvent(u, kind)
  \/ Advance
  \/ TickTail
  \/ StartTail
  \/ ResetTail
  \/ CallbackReturn
  \/ \E x \in Listeners : CallbackSubscribe(x)
  \/ \E x \in Listeners : CallbackUnsubscribe(x)
  \/ CallbackReset
  \/ CallbackThrow
  \/ NotifyDone

Spec == Init /\ [][Next]_vars

(***************************************************************************)
(* buildTimeline on its own, over every viseme sequence up to MaxPhonemes. *)
(***************************************************************************)
PhonemeSeqs == UNION {[1..n -> PhonemeType] : n \in 0..MaxPhonemes}

BuildOnly(phonemes) ==
  /\ Idle
  /\ afterReset = "no"
  /\ timeline = <<>>
  /\ timeline' = buildTimeline(phonemes)
  /\ UNCHANGED hooks
  /\ UNCHANGED <<listeners, currentVariationKey, utterance, utteranceStartTime,
                 playbackInterval, timers, now, uttState, stack,
                 afterReset>>

NextBuild == \E phonemes \in PhonemeSeqs : BuildOnly(phonemes)

SpecBuild == Init /\ [][NextBuild]_vars

(***************************************************************************)
(* One playback on its own: startPhonemeSimulation from buildTimeline to   *)
(* its first updateLoop(), then updateLoop run by its timeout.  A timeout  *)
(* of 20 ms runs 20 ms later or, the thread being busy, later than that.   *)
(***************************************************************************)
\* the visemes generateNaturalMouthSequence pushes
NaturalVisemes == {"X", "A", "B", "C", "E", "H"}

PlaySeqs == UNION {[1..n -> NaturalVisemes] : n \in 1..MaxPhonemes}

Delays == {TickPeriodMs, 90}

elapsedMsLooping(t) == (t - utteranceStartTime) % 100

elapsedMs(t) == t - utteranceStartTime

PlayAttach(phonemes) ==
  /\ utterance = Null
  /\ utterance' = 1
  /\ timeline' = buildTimeline(phonemes)
  /\ utteranceStartTime' = now
  /\ currentVariationKey' = getCurrentVariationFromTimeline(timeline', 0)
  /\ UNCHANGED <<listeners, playbackInterval, timers, now, uttState, stack,
                 afterReset, hooks>>

PlayTick(delay) ==
  /\ utterance # Null
  /\ now + delay <= MaxPlayNow
  /\ now' = now + delay
  /\ currentVariationKey' =
       getCurrentVariationFromTimeline(timeline, elapsedMs(now'))
  /\ UNCHANGED <<listeners, utterance, timeline, utteranceStartTime,
                 playbackInterval, timers, uttState, stack, afterReset, hooks>>

NextPlay ==
  \/ \E phonemes \in PlaySeqs : PlayAttach(phonemes)
  \/ \E delay \in Delays : PlayTick(delay)

SpecPlay == Init /\ [][NextPlay]_vars

(***************************************************************************)
(* useAudioAnalyzer: getMouthPositionFromAudio.  Amplitudes are counted in *)
(* hundredths, so every threshold of the function is a whole number and    *)
(* every interval between two thresholds holds a sample.                   *)
(***************************************************************************)
MouthPosition == {"X", "A", "B", "C", "E", "H"}

Amplitudes == 0..100
Frequencies == {0, 199, 200, 201, 799, 800, 801, 1500, 1999, 2000, 2001, 12000}

AudioFeatures ==
  [amplitude : Amplitudes, frequency : Frequencies, isSpeaking : BOOLEAN]

IsLoudInclusive(amplitude) == amplitude >= 60

IsLoud(amplitude) == amplitude > 60

DefaultPositionSeventh == "D"

DefaultPosition == "A"

IsHighFrequencyInclusive(frequency) == frequency >= 2000

IsHighFrequency(frequency) == frequency > 2000

getMouthPositionFromAudio(f) ==
  IF ~f.isSpeaking \/ f.amplitude < 5 THEN "X"
  ELSE IF IsLoud(f.amplitude) THEN "B"
  ELSE IF IsHighFrequency(f.frequency) THEN "H"
  ELSE IF f.frequency > 800 THEN "A"
  ELSE IF f.frequency > 200 /\ f.amplitude > 30 THEN "E"
  ELSE IF f.amplitude > 15 /\ f.amplitude < 35 THEN "C"
  ELSE DefaultPosition

\* analyzeAudio from the features on: classify, set the state.  The features
\* are drawn from the whole domain of the function, isSpeaking included.
analyzeAudio(f) ==
  /\ features' = f
  /\ audioMouthPosition' = getMouthPositionFromAudio(f)
  /\ UNCHANGED <<listeners, currentVariationKey, utterance, timeline,
                 utteranceStartTime, playbackInterval, timers, now, uttState,
                 stack, afterReset, utteranceText, phonemeArray,
                 currentMouthPosition,
                 pendingMouthPosition, previousMouthPositionRef,
                 transitionStartTimeRef, changedAt>>

NextAudio == \E f \in AudioFeatures : analyzeAudio(f)

SpecAudio == Init /\ [][NextAudio]_vars

(***************************************************************************)
(* RealisticAvatar in its text-driven mode (useAudioDriven is false and    *)
(* nothing sets it, so the effect of lines 481 to 487 does nothing): the   *)
(* callback it subscribes to the manager, React rendering the state the    *)
(* callback set, and the progress the draw loop computes.  The callback    *)
(* reads currentMouthPosition from the render that subscribed it, so until *)
(* React renders again and the effect subscribes a new callback it sees    *)
(* the value of the last render.  Progress is counted in eightieths.       *)
(***************************************************************************)
TRANSITION_DURATION_MS == 80

phonemeMappingIdentity == [p \in PhonemeType |-> p]

phonemeMapping ==
  [p \in PhonemeType |->
     CASE p = "D" -> "A" [] p = "F" -> "C" [] p = "G" -> "A" [] OTHER -> p]

AvatarPhonemes == {"X", "A", "B", "D"}   \* the visemes of the keys published

AvatarKeys ==
  {VariationKeyOf(p, Variations[j]) : p \in AvatarPhonemes, j \in 1..Len(Variations)}

\* variationKey.split('-')[0]
PhonemeOfKey(key) ==
  CHOOSE p \in PhonemeType :
    \E j \in 1..Len(Variations) : VariationKeyOf(p, Variations[j]) = key

mappedPhoneme(key) == phonemeMapping[PhonemeOfKey(key)]

Min(a, b) == IF a <= b THEN a ELSE b

\* draw: Math.min(elapsedTransitionTime / TRANSITION_DURATION_MS, 1.0)
transitionProgress == Min(now - transitionStartTimeRef, TRANSITION_DURATION_MS)

\* The mouth position last handed to setCurrentMouthPosition.
Latest ==
  IF pendingMouthPosition = NoUpdate THEN currentMouthPosition
  ELSE pendingMouthPosition

InitAvatar ==
  /\ ManagerInit
  /\ HooksInit
  /\ now = TRANSITION_DURATION_MS
  /\ utteranceText = <<>>
  /\ phonemeArray = <<>>

RestartsOnPrevious(key) == mappedPhoneme(key) # previousMouthPositionRef

\* setCurrentVariation(key) with the avatar's callback subscribed.
Publish(key) ==
  /\ KeyChanged(key)
  /\ currentVariationKey' = key
  /\ IF RestartsOnPrevious(key)
     THEN /\ transitionStartTimeRef' = now
          /\ previousMouthPositionRef' = currentMouthPosition
     ELSE UNCHANGED <<transitionStartTimeRef, previousMouthPositionRef>>
  /\ pendingMouthPosition' =
       IF mappedPhoneme(key) = currentMouthPosition THEN NoUpdate
       ELSE mappedPhoneme(key)
  /\ changedAt' = IF mappedPhoneme(key) # Latest THEN now ELSE changedAt
  /\ UNCHANGED <<listeners, utterance, timeline, utteranceStartTime,
                 playbackInterval, timers, now, uttState, stack, afterReset,
                 utteranceText, phonemeArray, features,
                 audioMouthPosition, currentMouthPosition>>

\* React renders the pending state; the effect subscribes a callback that
\* has captured it.
Render ==
  /\ pendingMouthPosition # NoUpdate
  /\ currentMouthPosition' = pendingMouthPosition
  /\ pendingMouthPosition' = NoUpdate
  /\ UNCHANGED <<listeners, currentVariationKey, utterance, timeline,
                 utteranceStartTime, playbackInterval, timers, now, uttState,
                 stack, afterReset, utteranceText, phonemeArray, features,
                 audioMouthPosition, previousMouthPositionRef,
                 transitionStartTimeRef, changedAt>>

\* Time passes between two tasks.
FrameAdvance ==
  /\ now + TickPeriodMs <= MaxFrameNow
  /\ now' = now + TickPeriodMs
  /\ UNCHANGED <<listeners, currentVariationKey, utterance, timeline,
                 utteranceStartTime, playbackInterval, timers, uttState, stack,
                 afterReset, hooks>>

NextAvatar ==
  \/ \E key \in AvatarKeys : Publish(key)
  \/ Render
  \/ FrameAdvance

SpecAvatar == InitAvatar /\ [][NextAvatar]_vars

(***************************************************************************)
(* startPhonemeSimulation down to buildTimeline, over every text of up to  *)
(* MaxTextLen characters of Alphabet, each build on top of the last.       *)
(***************************************************************************)
Alphabet == {" ", "m", "E"}

Texts == UNION {[1..n -> Alphabet] : n \in 0..MaxTextLen}

InitText ==
  /\ ManagerInit
  /\ HooksInit
  /\ now = 0
  /\ utteranceText \in Texts
  /\ phonemeArray = <<>>

\* The host constructs the next utterance.
NewUtterance(text) ==
  /\ timeline # <<>>
  /\ utteranceText' = text
  /\ UNCHANGED <<listeners, currentVariationKey, utterance, timeline,
                 utteranceStartTime, playbackInterval, timers, now, uttState,
                 stack, afterReset, phonemeArray, features,
                 audioMouthPosition, currentMouthPosition, pendingMouthPosition,
                 previousMouthPositionRef, transitionStartTimeRef, changedAt>>

\* startPhonemeSimulation, lines 133 to 140.
StartSimulation ==
  /\ timeline' = buildTimeline(generateNaturalMouthSequence(utteranceText))
  /\ UNCHANGED <<listeners, currentVariationKey, utterance,
                 utteranceStartTime, playbackInterval, timers, now, uttState,
                 stack, afterReset, hooks>>

NextText ==
  \/ \E text \in SampleTexts : NewUtterance(text)
  \/ StartSimulation

SpecText == InitText /\ [][NextText]_vars

(***************************************************************************)
(* The registry and the notification rounds alone: subscribe, the          *)
(* unsubscribe handles, setCurrentPhoneme and reset, with no utterance     *)
(* attached and so no timer.                                               *)
(***************************************************************************)
NextRegistry ==
  \/ \E l \in Listeners : HostSubscribe(l)
  \/ \E l \in Listeners : HostUnsubscribe(l)
  \/ \E p \in HostPhonemes : HostSetCurrentPhoneme(p)
  \/ HostReset
  \/ ResetTail
  \/ CallbackReturn
  \/ \E x \in Listeners : CallbackSubscribe(x)
  \/ \E x \in Listeners : CallbackUnsubscribe(x)
  \/ CallbackReset
  \/ CallbackThrow
  \/ NotifyDone

SpecRegistry == Init /\ [][NextRegistry]_vars

(***************************************************************************)
(* buildTimeline alone with the array it is handed kept: every array of up *)
(* to MaxPhonemes visemes first, then a sample array over the timeline of  *)
(* the first.                                                              *)
(***************************************************************************)
SamplePhonemes == { <<"D">>, <<"F", "G">> }

InitPhases ==
  /\ ManagerInit
  /\ HooksInit
  /\ now = 0
  /\ utteranceText = <<>>
  /\ phonemeArray \in PhonemeSeqs

\* The next sequence is generated.
NextPhonemes(phonemes) ==
  /\ timeline # <<>>
  /\ phonemeArray' = phonemes
  /\ UNCHANGED <<listeners, currentVariationKey, utterance, timeline,
                 utteranceStartTime, playbackInterval, timers, now, uttState,
                 stack, afterReset, utteranceText, features,
                 audioMouthPosition, currentMouthPosition, pendingMouthPosition,
                 previousMouthPositionRef, transitionStartTimeRef, changedAt>>

\* this.buildTimeline(phonemes), line 140.
BuildPhases ==
  /\ timeline' = buildTimeline(phonemeArray)
  /\ UNCHANGED <<listeners, currentVariationKey, utterance,
                 utteranceStartTime, playbackInterval, timers, now, uttState,
                 stack, afterReset, hooks>>

NextPhases ==
  \/ \E phonemes \in SamplePhonemes : NextPhonemes(phonemes)
  \/ BuildPhases

SpecPhases == InitPhases /\ [][NextPhases]_vars

(***************************************************************************)
(* textToPhonemes alone, over every text of up to MaxTextLen characters of *)
(* ScanAlphabet.                                                           *)
(***************************************************************************)
ScanAlphabet == {" ", "t", "T", "h", "i"}

ScanTexts == UNION {[1..n -> ScanAlphabet] : n \in 0..MaxTextLen}

InitScan ==
  /\ ManagerInit
  /\ HooksInit
  /\ now = 0
  /\ utteranceText \in ScanTexts
  /\ phonemeArray = <<>>

\* const phonemes = this.textToPhonemes(text)
ScanText ==
  /\ phonemeArray' = textToPhonemes(utteranceText)
  /\ UNCHANGED <<listeners, currentVariationKey, utterance, timeline,
                 utteranceStartTime, playbackInterval, timers, now, uttState,
                 stack, afterReset, utteranceText, features,
                 audioMouthPosition, currentMouthPosition, pendingMouthPosition,
                 previousMouthPositionRef, transitionStartTimeRef, changedAt>>

NextScan == ScanText

SpecScan == InitScan /\ [][NextScan]_vars

(***************************************************************************)
(* Properties.                                                             *)
(***************************************************************************)

\* C1: at most one driving source is active, so at most one tick timer is
\* ever pending.
C1_AtMostOneTimerPending == Cardinality(timers) <= 1

\* C2: once reset() has returned, and until the next setUtterance, no tick
\* runs and no callback is told a non-silence key from inside a tick.
C2_NoTickAfterReset ==
  [][afterReset # "no" =>
       /\ ~(\E id \in TimerIds : TimerFire(id))
       /\ (Notifying /\ InUpdateLoop(stack) => currentVariationKey = Silence)]_vars

\* C3: right after reset() returns no timer is pending, the timeline is
\* empty, no utterance is attached and the published key is 'X-hold'.
C3_ResetForcesIdle ==
  afterReset \in {"just", "twice"} =>
    /\ timers = {}
    /\ timeline = <<>>
    /\ utterance = Null
    /\ currentVariationKey = Silence

\* C4: the end or error event of the attached utterance, fired while a tick
\* is pending, leaves no tick pending and publishes 'X-hold', beginning a
\* notification round when the key changed.
C4_EndEventStopsSession ==
  [][\A u \in Utterances, kind \in {"end", "error"} :
       (UtteranceEvent(u, kind) /\ u = utterance /\ timers # {}) =>
         /\ timers' = {}
         /\ currentVariationKey' = Silence
         /\ (currentVariationKey # Silence =>
               stack' # <<>> /\ Head(stack').k = "notify")]_vars

\* C5 as stated: setUtterance publishes the silence key first.
C5_AttachPublishesSilence ==
  [][\A u \in Utterances, text \in SampleTexts :
       HostSetUtterance(u, text) => currentVariationKey' = Silence]_vars

\* C5, amended: setUtterance starts the tick loop and at once publishes the
\* key of the first timeline entry, the opening phase of the first viseme,
\* beginning a notification round exactly when that key differs from the
\* one published before.
C5_AttachPublishesFirstEntry ==
  [][\A u \in Utterances, text \in SampleTexts :
       HostSetUtterance(u, text) =>
         /\ timeline' # <<>>
         /\ currentVariationKey' = timeline'[1].variationKey
         /\ currentVariationKey' =
              VariationKeyOf(generateNaturalMouthSequence(text)[1], "opening")
         /\ InUpdateLoop(stack')
         /\ (Head(stack').k = "notify") =
              (currentVariationKey # currentVariationKey')]_vars

C5_Witness ==
  /\ stack # <<>>
  /\ Top.k = "notify"
  /\ InUpdateLoop(stack)
  /\ \E n \in 1..Len(stack) : stack[n].k = "startTail"
  /\ Top.called = <<>>
  /\ Registry # {}
  /\ currentVariationKey = "C-opening"

\* C6: an exception thrown inside a tick is caught by the engine, which
\* publishes silence and is left with no tick pending.
C6_TickErrorContained ==
  [][(CallbackThrow /\ InUpdateLoop(stack)) =>
       /\ ~Escapes(stack)
       /\ currentVariationKey' = Silence
       /\ timers' = {}]_vars

\* C7: a notification round calls exactly the listeners registered when it
\* began, each once.
C7_SnapshotIteration ==
  [][NotifyDone =>
       /\ {Top.called[n] : n \in 1..Len(Top.called)} = Top.snap
       /\ Len(Top.called) = Cardinality(Top.snap)]_vars

\* C8: setUtterance, a tick, the end and error events, setCurrentVariation
\* and reset leave the registry as it is; only subscribe and the
\* unsubscribe handles change it.
EngineStep ==
  \/ \E u \in Utterances, text \in SampleTexts : HostSetUtterance(u, text)
  \/ \E p \in HostPhonemes : HostSetCurrentPhoneme(p)
  \/ HostReset
  \/ CallbackReset
  \/ \E id \in TimerIds : TimerFire(id)
  \/ \E u \in Utterances, kind \in {"end", "error"} : UtteranceEvent(u, kind)
  \/ TickTail
  \/ StartTail
  \/ ResetTail
  \/ NotifyDone

ExplicitStep ==
  \/ \E l \in Listeners : HostSubscribe(l)
  \/ \E l \in Listeners : HostUnsubscribe(l)
  \/ \E x \in Listeners : CallbackSubscribe(x)
  \/ \E x \in Listeners : CallbackUnsubscribe(x)

C8_NoImplicitRevocation ==
  [][\/ Registry' = Registry
     \/ ExplicitStep /\ ~EngineStep]_vars

C8_Witness ==
  /\ afterReset = "just"
  /\ Registry = Listeners
  /\ \E u \in Utterances : uttState[u] = "done"

RECURSIVE SumDurations(_)
SumDurations(tl) ==
  IF tl = <<>> THEN 0 ELSE Head(tl).duration + SumDurations(Tail(tl))

C10_TimelineContiguous ==
  /\ timeline # <<>> => timeline[1].startTime = 0
  /\ \A n \in 2..Len(timeline) :
       timeline[n].startTime = timeline[n - 1].startTime + timeline[n - 1].duration
  /\ \A n \in 1..Len(timeline) : timeline[n].duration > 0
  /\ timeline # <<>> =>
       timeline[Len(timeline)].startTime + timeline[Len(timeline)].duration
         = SumDurations(timeline)

C10_Witness ==
  /\ Len(timeline) >= 6
  /\ timeline[1].phoneme = "B"
  /\ timeline[4].phoneme = "C"
  /\ timeline[4].startTime = 160

\* C11: a lookup at or past the end of the timeline, and any lookup in an
\* empty timeline, gives 'X-hold'.
C11_LookupClamped ==
  \A t \in SumDurations(timeline)..(SumDurations(timeline) + MaxOvershoot) :
    getCurrentVariationFromTimeline(timeline, t) = Silence

C11_Witness ==
  /\ timeline # <<>>
  /\ timeline[Len(timeline)].variationKey = "B-closing"
  /\ getCurrentVariationFromTimeline(timeline, SumDurations(timeline) - 1) = "B-closing"
  /\ getCurrentVariationFromTimeline(timeline, SumDurations(timeline)) = Silence

\* The visemes of a timeline, one per three entries.
PhonemesOf(tl) == [n \in 1..(Len(tl) \div 3) |-> tl[3 * n].phoneme]

\* C12: building the timeline of any text, the empty text and texts with
\* leading or trailing whitespace included, gives a timeline that is not
\* empty, starts at 0 and holds three entries per viseme of that text and
\* nothing of the timeline built before.
C12_TimelineNeverEmpty ==
  [][StartSimulation =>
       /\ timeline' # <<>>
       /\ timeline'[1].startTime = 0
       /\ Len(timeline') = 3 * Len(generateNaturalMouthSequence(utteranceText))
       /\ PhonemesOf(timeline') = generateNaturalMouthSequence(utteranceText)]_vars

C12_Witness ==
  /\ utteranceText = <<" ">>
  /\ Len(timeline) = 21
  /\ PhonemesOf(timeline) = <<"A", "A", "A", "X", "A", "A", "A">>

\* C13: whatever the amplitude, the frequency and isSpeaking, the audio
\* classifier returns one of the mouth positions X, A, B, C, E, H.
C13_ClassifierTotal == audioMouthPosition \in MouthPosition

C13_Witness ==
  /\ features = [amplitude |-> 10, frequency |-> 199, isSpeaking |-> TRUE]
  /\ audioMouthPosition = "A"

\* The seven rules as the specification words them, the first that matches
\* deciding.
Cascade(f) ==
  IF ~f.isSpeaking \/ f.amplitude < 5 THEN "X"
  ELSE IF f.amplitude > 60 THEN "B"
  ELSE IF f.frequency > 2000 THEN "H"
  ELSE IF 800 < f.frequency /\ f.frequency <= 2000 THEN "A"
  ELSE IF 200 < f.frequency /\ f.frequency <= 800 /\ f.amplitude > 30 THEN "E"
  ELSE IF 15 < f.amplitude /\ f.amplitude < 35 THEN "C"
  ELSE "A"

\* C14: the audio classifier returns what the seven-rule cascade returns.
C14_ClassifierIsCascade == audioMouthPosition = Cascade(features)

C14_Witness ==
  /\ features = [amplitude |-> 60, frequency |-> 1500, isSpeaking |-> TRUE]
  /\ audioMouthPosition = "A"

\* C15: the blend progress lies between 0 and 1, does not decrease while
\* the mouth position stays the same, and is 1 from 80 ms after the last
\* change of the mouth position on.
C15_ProgressMonotone ==
  [][/\ transitionProgress' \in 0..TRANSITION_DURATION_MS
     /\ (Latest' = Latest => transitionProgress' >= transitionProgress)
     /\ (now' - changedAt' >= TRANSITION_DURATION_MS =>
           transitionProgress' = TRANSITION_DURATION_MS)]_vars

\* The place in the timeline of the entry that holds time t; past the last
\* place when no entry does.
EntryIndex(tl, t) ==
  LET hits == {i \in 1..Len(tl) : tl[i].startTime <= t /\ t < tl[i].startTime + tl[i].duration}
  IN IF hits = {} THEN Len(tl) + 1 ELSE CHOOSE i \in hits : \A k \in hits : i <= k

\* C16: each tick of a playback publishes the key of the entry that holds
\* the time elapsed, or silence past the end; that entry is the one the tick
\* before published or a later one, and starts no earlier.
C16_PublishedInTimeOrder ==
  [][(\E delay \in Delays : PlayTick(delay)) =>
       LET before == EntryIndex(timeline, now - utteranceStartTime)
           after == EntryIndex(timeline, now' - utteranceStartTime)
       IN /\ after >= before
          /\ currentVariationKey' =
               (IF after <= Len(timeline) THEN timeline[after].variationKey
                ELSE Silence)
          /\ (after <= Len(timeline) =>
                timeline[after].startTime >= timeline[before].startTime)]_vars

C16_Witness ==
  /\ Len(timeline) = 6
  /\ EntryIndex(timeline, now - utteranceStartTime) = 5
  /\ currentVariationKey = timeline[5].variationKey
  /\ timeline[5].phoneme # timeline[1].phoneme

\* C17: a reported mouth position that differs from the current one becomes
\* the current one, the old current one becomes the previous one, and the
\* transition starts now.
C17_ChangeStartsTransition ==
  [][\A key \in AvatarKeys :
       (Publish(key) /\ mappedPhoneme(key) # Latest) =>
         /\ previousMouthPositionRef' = Latest
         /\ Latest' = mappedPhoneme(key)
         /\ transitionStartTimeRef' = now]_vars

\* C18: a reported mouth position equal to the current one leaves the
\* previous one and the start of the transition as they are.
C18_NoChangeNoRestart ==
  [][\A key \in AvatarKeys :
       (Publish(key) /\ mappedPhoneme(key) = Latest) =>
         UNCHANGED <<previousMouthPositionRef, transitionStartTimeRef>>]_vars

\* C19: at the instant the mouth position changes the blend progress is 0.
C19_ProgressZeroAtChange ==
  [][Latest' # Latest => transitionProgress' = 0]_vars

RECURSIVE ExpectedLength(_)
ExpectedLength(words) ==
  IF words = <<>> THEN 0
  ELSE 3 * (IF Len(Head(words)) >= 6 THEN Len(Head(words)) \div 3 ELSE 1)
       + (IF Len(words) > 1 THEN 1 ELSE 0)
       + ExpectedLength(Tail(words))

NonEmptyWordCount(text) ==
  Cardinality({i \in 1..Len(text) :
                 ~IsSpace(text[i]) /\ (i = 1 \/ IsSpace(text[i - 1]))})

SilencesOnlyBetweenWords(seq, text) ==
  /\ seq # <<>> => seq[1] # "X" /\ seq[Len(seq)] # "X"
  /\ Cardinality({n \in 1..Len(seq) : seq[n] = "X"}) =
       (IF NonEmptyWordCount(text) = 0 THEN 0 ELSE NonEmptyWordCount(text) - 1)

\* C21: the viseme sequence of a text, from the word patterns as from the
\* character scan, does not begin or end with X and holds one X for each
\* gap between two words that hold a character, so none for a single word.
C21_SilenceOnlyBetweenWords ==
  [][StartSimulation =>
       /\ SilencesOnlyBetweenWords(PhonemesOf(timeline'), utteranceText)
       /\ SilencesOnlyBetweenWords(textToPhonemes(utteranceText), utteranceText)]_vars

EntriesAt(tl, t) ==
  {i \in 1..Len(tl) : tl[i].startTime <= t /\ t < tl[i].startTime + tl[i].duration}

\* C22: at every millisecond from 0 up to, but not including, the total
\* duration of a built timeline exactly one entry has its interval
\* [startTime, startTime + duration) around it, and the lookup returns the
\* variation key of that entry.
C22_LookupFindsTheOneEntry ==
  \A t \in 0..(SumDurations(timeline) - 1) :
    LET entries == EntriesAt(timeline, t)
    IN /\ Cardinality(entries) = 1
       /\ \A i \in entries :
            getCurrentVariationFromTimeline(timeline, t) = timeline[i].variationKey

C22_Witness ==
  /\ Len(timeline) = 9
  /\ SumDurations(timeline) = 400
  /\ EntriesAt(timeline, 290) = {7}
  /\ getCurrentVariationFromTimeline(timeline, 290) = "G-opening"

\* C23: every tick of a running session, whether or not the variation key
\* it computes differs from the published one, starts a notification round
\* that calls all the subscribers registered at that moment with the key
\* computed on the tick.
C23_EveryTickNotifies ==
  [][(/\ \E id \in TimerIds : TimerFire(id)
      /\ utterance # Null
      /\ timeline # <<>>
      /\ Registry # {}) =>
       /\ currentVariationKey' =
            getCurrentVariationFromTimeline(timeline, now - utteranceStartTime)
       /\ stack' # <<>>
       /\ Head(stack').k = "notify"
       /\ Head(stack').snap = Registry]_vars

\* C24: the thresholds of the loud rule and of the high-frequency rule are
\* strict: while speaking, an amplitude of exactly 0.6 is not classified B,
\* a frequency of exactly 2000 Hz is not classified H, and an amplitude of
\* exactly 0.6 with a frequency above 800 Hz and up to 2000 Hz is
\* classified A.
C24_StrictThresholds ==
  features.isSpeaking =>
    /\ features.amplitude = 60 => audioMouthPosition # "B"
    /\ (features.frequency = 2000 /\ features.amplitude <= 60) =>
         audioMouthPosition # "H"
    /\ (features.amplitude = 60 /\ features.frequency > 800
                                /\ features.frequency <= 2000) =>
         audioMouthPosition = "A"

C24_Witness ==
  /\ features = [amplitude |-> 60, frequency |-> 2000, isSpeaking |-> TRUE]
  /\ audioMouthPosition = "A"

\* C25: a sequence of n visemes gives a timeline of 3n entries, and the
\* three entries of the k-th viseme are its opening, its hold and its
\* closing, in that order, each with the duration the table gives that
\* viseme for that phase.
C25_ThreePhasesPerViseme ==
  [][BuildPhases =>
       /\ Len(timeline') = 3 * Len(phonemeArray)
       /\ \A k \in 1..Len(phonemeArray) :
            LET opening == timeline'[3 * k - 2]
                hold == timeline'[3 * k - 1]
                closing == timeline'[3 * k]
                durations == PHONEME_DURATIONS[phonemeArray[k]]
            IN /\ opening.phoneme = phonemeArray[k]
               /\ hold.phoneme = phonemeArray[k]
               /\ closing.phoneme = phonemeArray[k]
               /\ opening.variation = "opening"
               /\ hold.variation = "hold"
               /\ closing.variation = "closing"
               /\ opening.duration = durations.opening
               /\ hold.duration = durations.hold
               /\ closing.duration = durations.closing]_vars

C25_Witness ==
  /\ phonemeArray = <<"F", "G">>
  /\ Len(timeline) = 6
  /\ timeline[5] = [phoneme |-> "G", variation |-> "hold",
                    variationKey |-> "G-hold", startTime |-> 150,
                    duration |-> 50]

\* The character scan read off a text of t, h, i and spaces from left to
\* right: G for a t with an h right after it, which is passed over, D for
\* any other t, A for any other h, H for an i, X for a run of spaces.
RECURSIVE DigraphScan(_, _)
DigraphScan(text, i) ==
  IF i > Len(text) THEN <<>>
  ELSE IF text[i] = " "
       THEN (IF i > 1 /\ text[i - 1] = " " THEN <<>> ELSE <<"X">>)
            \o DigraphScan(text, i + 1)
  ELSE IF text[i] = "t" /\ i < Len(text) /\ text[i + 1] = "h"
       THEN <<"G">> \o DigraphScan(text, i + 2)
  ELSE <<(CASE text[i] = "t" -> "D" [] text[i] = "h" -> "A" [] OTHER -> "H")>>
       \o DigraphScan(text, i + 1)

\* C26: the character scan turns a t with an h right after it into one G
\* and moves on by two characters, so that this h gives no symbol of its
\* own; every pass over a word moves on by one or two characters, so the
\* scan of a word ends.
C26_DigraphGreedy ==
  [][ScanText =>
       LET text == LowerText(utteranceText)
           words == SplitWords(text)
       IN /\ phonemeArray' = DigraphScan(text, 1)
          /\ Cardinality({n \in 1..Len(phonemeArray') : phonemeArray'[n] = "G"}) =
               Cardinality({i \in 1..(Len(text) - 1) :
                              text[i] = "t" /\ text[i + 1] = "h"})
          /\ \A w \in 1..Len(words) : \A i \in 1..Len(words[w]) :
               CharStep(words[w], i).next =
                 (IF words[w][i] = "t" /\ i < Len(words[w]) /\ words[w][i + 1] = "h"
                  THEN i + 2 ELSE i + 1)]_vars

C26_Witness ==
  /\ utteranceText = <<"T", "h", "i", "t", "t", "h">>
  /\ phonemeArray = <<"G", "H", "D", "G">>

\* C27: the end or error event of an utterance that a later setUtterance
\* has replaced leaves the session of the attached utterance alone: the
\* pending tick stays pending, the handle of it stays stored, and the
\* published key stays what it was.
C27_StaleEventIgnored ==
  [][\A u \in Utterances : \A kind \in {"end", "error"} :
       (/\ UtteranceEvent(u, kind)
        /\ utterance # Null
        /\ utterance # u
        /\ uttState[utterance] = "armed") =>
         /\ timers' = timers
         /\ playbackInterval' = playbackInterval
         /\ currentVariationKey' = currentVariationKey]_vars

\* A tick is pending, or updateLoop is running and about to arm one.
LoopAlive(tm, st) == tm # {} \/ InUpdateLoop(st)

\* C28: a step after which no tick is pending and none is about to be
\* armed, when one was before, is the end or error event of the attached
\* utterance or a reset(); and updateLoop arms the next tick whatever the
\* lookup returned, past the end of the timeline too.
C28_LoopStoppedOnlyByEventOrReset ==
  [][/\ (LoopAlive(timers, stack) /\ ~LoopAlive(timers', stack')) =>
          \/ \E u \in Utterances : \E kind \in {"end", "error"} :
               u = utterance /\ UtteranceEvent(u, kind)
          \/ HostReset
          \/ CallbackReset
     /\ TickTail => (timers' # {} /\ playbackInterval' # Null)]_vars

\* C29: the unsubscribe handle of a listener, invoked by the host or from
\* inside a callback, leaves the listener out of the registry and takes
\* nobody else out of it; invoked when the listener is not registered it
\* changes nothing; subscribing a registered listener again adds no second
\* entry for a handle to miss; and a round only ever calls a listener that
\* is in the registry at the moment of the call, the round in progress
\* included.
C29_UnsubscribeIsFinal ==
  [][/\ \A l \in Listeners :
          (HostUnsubscribe(l) \/ CallbackUnsubscribe(l)) =>
            /\ Registry' = Registry \ {l}
            /\ \A n \in 1..Len(listeners') : listeners'[n] # l
            /\ l \notin Registry => listeners' = listeners
     /\ \A l \in Listeners :
          ((HostSubscribe(l) \/ CallbackSubscribe(l)) /\ l \in Registry) =>
            listeners' = listeners
     /\ Notifying => Callee \in Registry]_vars

C29_Witness ==
  /\ listeners = <<Empty, "l2">>
  /\ Notifying
  /\ Top.called = <<"l1">>
  /\ Callee = "l2"

\* C30: every viseme the generator puts into the timeline of a text is one
\* of X, A, B, C, E, H, and the avatar's callback turns the key of every
\* timeline entry into that same viseme; the mapping of the callback sends
\* each of the 9 symbols into the 6: D to A, F to C, G to A, the others to
\* themselves.
C30_OnlySixMouthPositions ==
  [][StartSimulation =>
       /\ \A n \in 1..Len(timeline') :
            /\ timeline'[n].phoneme \in {"X", "A", "B", "C", "E", "H"}
            /\ mappedPhoneme(timeline'[n].variationKey) = timeline'[n].phoneme
       /\ \A p \in PhonemeType :
            /\ phonemeMapping[p] \in {"X", "A", "B", "C", "E", "H"}
            /\ phonemeMapping[p] =
                 (CASE p = "D" -> "A" [] p = "F" -> "C" [] p = "G" -> "A"
                    [] OTHER -> p)]_vars

C30_Witness ==
  /\ utteranceText = <<"o">>
  /\ PhonemesOf(timeline) = <<"A", "E", "A">>
  /\ mappedPhoneme(timeline[5].variationKey) = "E"

====
